---- MODULE Spec2Model ----
(***************************************************************************)
(* Model of the execution proof engine of pi2 (ExecutionProofExp), of the  *)
(* SimplificationVisitor it drives, and of the pattern algebra both use.   *)
(*                                                                         *)
(* Patterns are records; every variant has its own field names, so two     *)
(* patterns are equal exactly when they have the same shape and leaves.    *)
(***************************************************************************)
EXTENDS Integers, Sequences, FiniteSets, TLC

VARIABLES
    status,              \* phase of the run: start / replaying / returned / direct / failed
    e_init_config,       \* ExecutionProofExp._init_config
    e_curr_config,       \* ExecutionProofExp._curr_config
    axioms,              \* ProofExp: asserted axioms and assumptions
    claims,              \* ProofExp: accumulated claims, in order
    proofs,              \* ProofExp: accumulated proof expressions, in order
    v_curr_config,       \* SimplificationVisitor._curr_config
    v_attr_curr_config,  \* SimplificationVisitor.curr_config (attribute set in __exit__)
    stack,               \* SimplificationVisitor._simplification_stack
    in_simplification,   \* SimplificationVisitor._in_simplification
    trace,               \* hints consumed so far by from_proof_hints
    lastCall,            \* the last operation invoked, with its arguments
    err,                 \* "none", or the exception the last operation raised
    nevents,             \* number of operations invoked so far
    conv,                \* KoreConverter: its caches
    returned             \* the value the last operation returned

vars == <<status, e_init_config, e_curr_config, axioms, claims, proofs,
          v_curr_config, v_attr_curr_config, stack, in_simplification,
          trace, lastCall, err, nevents, conv, returned>>

engineVars == <<e_init_config, e_curr_config, axioms, claims, proofs>>
visitorVars == <<v_curr_config, v_attr_curr_config, stack, in_simplification>>
converterVars == <<conv, returned>>

-----------------------------------------------------------------------------
(* Bounds *)

\* Longest sequence of operations (trace events, visitor calls) explored.
MaxEvents == 4

\* Longest sequence of enter / call / exit / update_configuration explored
\* on a visitor used on its own.
MaxVisitorOps == 5

-----------------------------------------------------------------------------
(* Pattern algebra *)

Symbol(n) == [sym |-> n]
MetaVar(i) == [mv |-> i]
EVar(i) == [ev |-> i]
App(l, r) == [left |-> l, right |-> r]
Implies(a, b) == [imp_left |-> a, imp_right |-> b]
Exists(v, b) == [var |-> v, body |-> b]
And(a, b) == [and_left |-> a, and_right |-> b]
KoreRewrites(s, l, r) == [rw_sort |-> s, rw_left |-> l, rw_right |-> r]

IsSymbol(p) == DOMAIN p = {"sym"}
IsMetaVar(p) == DOMAIN p = {"mv"}
IsEVar(p) == DOMAIN p = {"ev"}
IsApp(p) == DOMAIN p = {"left", "right"}
IsKoreRewrites(p) == DOMAIN p = {"rw_sort", "rw_left", "rw_right"}
IsImplication(p) == DOMAIN p = {"imp_left", "imp_right"}

\* The absent value (Python None).
None == [none |-> TRUE]

\* A substitution is a Python dict: an insertion-ordered sequence of
\* [key, plug] entries with distinct keys.
Entry(k, p) == [key |-> k, plug |-> p]
Keys(subst) == {subst[i].key : i \in 1..Len(subst)}
Lookup(subst, k) == subst[CHOOSE i \in 1..Len(subst) : subst[i].key = k].plug

\* Pattern.instantiate(delta): all metavariables replaced at once.
RECURSIVE Instantiate(_, _)
Instantiate(p, delta) ==
    IF IsMetaVar(p) THEN (IF p.mv \in Keys(delta) THEN Lookup(delta, p.mv) ELSE p)
    ELSE IF IsApp(p) THEN App(Instantiate(p.left, delta), Instantiate(p.right, delta))
    ELSE IF IsImplication(p)
        THEN Implies(Instantiate(p.imp_left, delta), Instantiate(p.imp_right, delta))
    ELSE IF IsKoreRewrites(p)
        THEN KoreRewrites(Instantiate(p.rw_sort, delta), Instantiate(p.rw_left, delta),
                          Instantiate(p.rw_right, delta))
    ELSE p

\* Pattern.apply_esubst(evar_id, plug): one element variable replaced.
RECURSIVE ApplyESubst(_, _, _)
ApplyESubst(p, id, plug) ==
    IF IsEVar(p) THEN (IF p.ev = id THEN plug ELSE p)
    ELSE IF IsApp(p) THEN App(ApplyESubst(p.left, id, plug), ApplyESubst(p.right, id, plug))
    ELSE p

\* chain_patterns: left fold of a non-empty sequence into binary applications.
RECURSIVE Chain(_)
Chain(ps) ==
    IF Len(ps) = 1 THEN ps[1]
    ELSE App(Chain(SubSeq(ps, 1, Len(ps) - 1)), ps[Len(ps)])

\* kl.deconstruct_nary_application: head and arguments of a left-nested application.
RECURSIVE NaryHead(_)
NaryHead(p) == IF IsApp(p) THEN NaryHead(p.left) ELSE p

RECURSIVE NaryArgs(_)
NaryArgs(p) == IF IsApp(p) THEN Append(NaryArgs(p.left), p.right) ELSE <<>>

\* definedness.functional(p): Exists(v, (v -> p) /\ (p -> v)).
Functional(p) == Exists(0, And(Implies(EVar(0), p), Implies(p, EVar(0))))

-----------------------------------------------------------------------------
(* Language semantics: the specification the engine runs against.  One    *)
(* small specification, with rewriting rules whose right side contains    *)
(* function applications, and equational rules that simplify them.        *)

\* KSymbol.is_functional, by symbol name ("p" is a partial function).
FunctionalSymbols == {"a", "b", "c", "s", "z", "f", "d"}
\* Symbols that are functions, not constructors: their applications are redexes.
FunctionSymbols == {"f", "d", "p"}
KSymbols == FunctionalSymbols \cup FunctionSymbols

\* LanguageSemantics.resolve_to_ksymbol: None for an unknown symbol.
ResolveToKSymbol(sym) ==
    IF sym.sym \in KSymbols
        THEN [name |-> sym.sym, is_functional |-> sym.sym \in FunctionalSymbols]
        ELSE None

Ap1(name, x) == App(Symbol(name), x)
SortCfg == Symbol("SortCfg")
Z == Symbol("z")

KRewritingRule(ord, lhs, rhs) ==
    [kind |-> "KRewritingRule", ordinal |-> ord, pattern |-> KoreRewrites(SortCfg, lhs, rhs)]
KEquationalRule(ord, lhs, rhs, req) ==
    [kind |-> "KEquationalRule", ordinal |-> ord, left |-> lhs, right |-> rhs,
     substitutions_from_requires |-> req]

Ordinals == 0..4

\* LanguageSemantics.get_axiom(ordinal)
GetAxiom(ord) ==
    CASE ord = 0 -> KRewritingRule(0, Ap1("a", MetaVar(0)), Ap1("b", MetaVar(0)))
      [] ord = 1 -> KRewritingRule(1, Ap1("b", MetaVar(0)), Ap1("c", Ap1("d", MetaVar(0))))
      [] ord = 2 -> KRewritingRule(2, Ap1("c", MetaVar(0)), Ap1("a", MetaVar(0)))
      [] ord = 3 -> KEquationalRule(3, Ap1("d", EVar(0)), Ap1("f", Ap1("f", EVar(1))),
                                    <<Entry(1, EVar(0))>>)
      [] ord = 4 -> KEquationalRule(4, Ap1("f", EVar(0)), Ap1("s", EVar(0)), <<>>)

RewritingRules == {GetAxiom(o) : o \in 0..2}

\* LanguageSemantics.count_simplifications: the function applications in a pattern.
RECURSIVE CountSimplifications(_)
CountSimplifications(p) ==
    IF IsSymbol(p) THEN (IF p.sym \in FunctionSymbols THEN 1 ELSE 0)
    ELSE IF IsApp(p) THEN CountSimplifications(p.left) + CountSimplifications(p.right)
    ELSE 0

-----------------------------------------------------------------------------
(* Inputs *)

SubstValues == {Z, Ap1("s", Z), Ap1("f", Z), Ap1("p", Z)}

Substitutions ==
    {<<>>} \cup {<<Entry(0, v)>> : v \in SubstValues}
           \cup {<<Entry(0, Z), Entry(1, Ap1("p", Z))>>}

Locations == {<<>>, <<0>>, <<0, 0>>, <<1>>}

InitConfigs == {Ap1("a", Z), Ap1("a", Ap1("p", Z)), Ap1("c", Ap1("f", Z))}

Hints ==
    {[axiom |-> GetAxiom(o), substitutions |-> s, configuration_before |-> c] :
        o \in Ordinals, s \in Substitutions, c \in InitConfigs}

-----------------------------------------------------------------------------
(* SimplificationVisitor *)

SimplificationInfo(loc, initial, result, left) ==
    [location |-> loc, initial_pattern |-> initial,
     simplification_result |-> result, simplifications_left |-> left]

\* Does the path of child indices exist in the pattern?
RECURSIVE Resolves(_, _)
Resolves(location, pattern) ==
    \/ location = <<>>
    \/ /\ location[1] < Len(NaryArgs(pattern))
       /\ Resolves(Tail(location), NaryArgs(pattern)[location[1] + 1])

\* SimplificationVisitor.get_subpattern, for a path that resolves.
RECURSIVE GetSubpattern(_, _)
GetSubpattern(location, pattern) ==
    IF location = <<>> THEN pattern
    ELSE GetSubpattern(Tail(location), NaryArgs(pattern)[location[1] + 1])

\* SimplificationVisitor.update_subterm, for a path that resolves.
RECURSIVE UpdateSubterm(_, _, _)
UpdateSubterm(location, pattern, plug) ==
    IF location = <<>> THEN plug
    ELSE LET args == NaryArgs(pattern)
             i == location[1] + 1
         IN Chain(<<NaryHead(pattern)>> \o
                  [args EXCEPT ![i] = UpdateSubterm(Tail(location), args[i], plug)])

\* Mutant: the variables of a substitution are replaced all at once.
RECURSIVE ApplySubstitutionsAtOnce(_, _)
ApplySubstitutionsAtOnce(pattern, substitutions) ==
    IF IsEVar(pattern)
    THEN (IF pattern.ev \in Keys(substitutions) THEN Lookup(substitutions, pattern.ev)
          ELSE pattern)
    ELSE IF IsApp(pattern)
    THEN App(ApplySubstitutionsAtOnce(pattern.left, substitutions),
             ApplySubstitutionsAtOnce(pattern.right, substitutions))
    ELSE pattern

\* SimplificationVisitor.apply_substitutions: one variable after the other, in dict order.
RECURSIVE ApplySubstitutions(_, _)
ApplySubstitutions(pattern, substitutions) ==
    IF substitutions = <<>> THEN pattern
    ELSE ApplySubstitutions(ApplyESubst(pattern, substitutions[1].key, substitutions[1].plug),
                            Tail(substitutions))

\* A visitor object, and the outcome of one of its methods.
Visitor(cfg, attr, stk, insim) ==
    [curr_config |-> cfg, attr_curr_config |-> attr, stack |-> stk, in_simplification |-> insim]
Outcome(v, e) == [v |-> v, err |-> e]

\* SimplificationVisitor.__init__
VisitorInit(init_config) == Visitor(init_config, None, <<>>, FALSE)

\* Mutant: update_configuration without its assertions.
CanUpdateConfigurationAlways(v) == TRUE

\* The two assertions of update_configuration.
CanUpdateConfiguration(v) == v.stack = <<>> /\ ~v.in_simplification

\* SimplificationVisitor.update_configuration
VisitorUpdateConfiguration(v, new_current_configuration) ==
    IF ~CanUpdateConfiguration(v) THEN Outcome(v, "AssertionError")
    ELSE Outcome([v EXCEPT !.curr_config = new_current_configuration], "none")

\* Mutant: the location is always resolved against the current configuration.
VisitorCallAgainstConfiguration(v, ordinal, substitution, location) ==
    LET root == v.curr_config
        rule == GetAxiom(ordinal)
    IN IF ~v.in_simplification THEN Outcome(v, "AssertionError")
       ELSE IF ~Resolves(location, root) THEN Outcome(v, "LocationError")
       ELSE IF rule.kind # "KEquationalRule" THEN Outcome(v, "AssertionError")
       ELSE LET sub_pattern == GetSubpattern(location, root)
                base_rhs == ApplySubstitutions(rule.right, rule.substitutions_from_requires)
                simplified_rhs == ApplySubstitutions(base_rhs, substitution)
                simplifications_left == CountSimplifications(simplified_rhs)
                new_info == SimplificationInfo(location, sub_pattern, simplified_rhs,
                                               simplifications_left)
            IN Outcome([v EXCEPT !.stack = Append(v.stack, new_info)], "none")

\* Mutant: a call that fails inside a scope drops the frames pushed so far.
VisitorCallClearingOnFailure(v, ordinal, substitution, location) ==
    LET root == IF v.stack = <<>> THEN v.curr_config
                ELSE v.stack[Len(v.stack)].simplification_result
        rule == GetAxiom(ordinal)
    IN IF ~v.in_simplification THEN Outcome(v, "AssertionError")
       ELSE IF ~Resolves(location, root) THEN Outcome([v EXCEPT !.stack = <<>>], "LocationError")
       ELSE IF rule.kind # "KEquationalRule"
       THEN Outcome([v EXCEPT !.stack = <<>>], "AssertionError")
       ELSE LET sub_pattern == GetSubpattern(location, root)
                base_rhs == ApplySubstitutions(rule.right, rule.substitutions_from_requires)
                simplified_rhs == ApplySubstitutions(base_rhs, substitution)
                simplifications_left == CountSimplifications(simplified_rhs)
                new_info == SimplificationInfo(location, sub_pattern, simplified_rhs,
                                               simplifications_left)
            IN Outcome([v EXCEPT !.stack = Append(v.stack, new_info)], "none")

\* SimplificationVisitor.__call__
VisitorCall(v, ordinal, substitution, location) ==
    LET root == IF v.stack = <<>> THEN v.curr_config
                ELSE v.stack[Len(v.stack)].simplification_result
        rule == GetAxiom(ordinal)
    IN IF ~v.in_simplification THEN Outcome(v, "AssertionError")
       ELSE IF ~Resolves(location, root) THEN Outcome(v, "LocationError")
       ELSE IF rule.kind # "KEquationalRule" THEN Outcome(v, "AssertionError")
       ELSE LET sub_pattern == GetSubpattern(location, root)
                base_rhs == ApplySubstitutions(rule.right, rule.substitutions_from_requires)
                simplified_rhs == ApplySubstitutions(base_rhs, substitution)
                simplifications_left == CountSimplifications(simplified_rhs)
                new_info == SimplificationInfo(location, sub_pattern, simplified_rhs,
                                               simplifications_left)
            IN Outcome([v EXCEPT !.stack = Append(v.stack, new_info)], "none")

\* SimplificationVisitor.__enter__
VisitorEnter(v) ==
    IF v.in_simplification THEN Outcome(v, "AssertionError")
    ELSE Outcome([v EXCEPT !.in_simplification = TRUE], "none")

\* SimplificationVisitor.__exit__: the loop that pops exhausted frames.
RECURSIVE VisitorExit(_)
VisitorExit(v) ==
    LET n == Len(v.stack) IN
    IF n > 0 /\ v.stack[n].simplifications_left = 0
    THEN LET exhausted_info == v.stack[n]
             rest == SubSeq(v.stack, 1, n - 1)
         IN IF rest # <<>>
            THEN LET last_info == rest[n - 1]
                     updated == [last_info EXCEPT
                         !.simplifications_left = last_info.simplifications_left - 1,
                         !.simplification_result =
                             UpdateSubterm(exhausted_info.location,
                                           last_info.simplification_result,
                                           exhausted_info.simplification_result)]
                 IN VisitorExit([v EXCEPT !.stack = [rest EXCEPT ![n - 1] = updated]])
            ELSE VisitorExit([v EXCEPT !.stack = rest,
                                       !.attr_curr_config =
                                           UpdateSubterm(exhausted_info.location, v.curr_config,
                                                         exhausted_info.simplification_result)])
    ELSE v

-----------------------------------------------------------------------------
(* ExecutionProofExp *)

Engine(ic, cc, ax, cl, pr, v) ==
    [init_config |-> ic, curr_config |-> cc, axioms |-> ax, claims |-> cl, proofs |-> pr,
     visitor |-> v]

\* ProofExp.load_axiom and ProofExp.dynamic_inst: proof expressions as terms.
LoadAxiom(pattern) == [axiom |-> pattern]
DynamicInst(proof, delta) == [inst_of |-> proof, delta |-> delta]

\* The primitive proofs: the two axiom schemas, modus ponens, and a proof
\* known only by its conclusion.
Prop1 == [rule |-> "Prop1"]
Prop2 == [rule |-> "Prop2"]
ModusPonens(left, right) == [mp_left |-> left, mp_right |-> right]
Assumption(conclusion) == [assumption |-> conclusion]

\* Proof.conclusion(); of a modus ponens, the right side of the conclusion
\* of its right proof.
RECURSIVE Conclusion(_)
Conclusion(proof) ==
    IF DOMAIN proof = {"axiom"} THEN proof.axiom
    ELSE IF proof = Prop1
        THEN Implies(MetaVar(0), Implies(MetaVar(1), MetaVar(0)))
    ELSE IF proof = Prop2
        THEN Implies(Implies(MetaVar(0), Implies(MetaVar(1), MetaVar(2))),
                     Implies(Implies(MetaVar(0), MetaVar(1)),
                             Implies(MetaVar(0), MetaVar(2))))
    ELSE IF DOMAIN proof = {"assumption"} THEN proof.assumption
    ELSE IF DOMAIN proof = {"mp_left", "mp_right"}
        THEN (IF IsImplication(Conclusion(proof.mp_right))
              THEN Conclusion(proof.mp_right).imp_right
              ELSE None)
    ELSE Instantiate(Conclusion(proof.inst_of), proof.delta)

\* ExecutionProofExp.__init__
EngineInit(init_config) ==
    Engine(init_config, init_config, {}, <<>>, <<>>, VisitorInit(init_config))

\* The three assertions of collect_functional_axioms on one substituted pattern.
HasFunctionalHead(pattern) ==
    LET sym == NaryHead(pattern) IN
    /\ IsSymbol(sym)
    /\ ResolveToKSymbol(sym) # None
    /\ ResolveToKSymbol(sym).is_functional

\* ExecutionProofExp.collect_functional_axioms, when no assertion fails.
CollectFunctionalAxioms(substitutions) ==
    [i \in 1..Len(substitutions) |->
        [kind |-> "FunctionalSymbol", pattern |-> Functional(substitutions[i].plug)]]

\* ExecutionProofExp.add_assumptions_for_rewrite_step, when no assertion fails.
AddAssumptionsForRewriteStep(e, rule, substitutions) ==
    LET func_axioms == CollectFunctionalAxioms(substitutions) IN
    [e EXCEPT !.axioms = @ \cup {func_axioms[i].pattern : i \in 1..Len(func_axioms)}
                           \cup {rule.pattern}]

\* Mutant: the comparison with the current configuration is dropped.
LhsMatchesAlways(lhs, current_configuration) == TRUE

\* The assertion of rewrite_event on the instantiated left side.
LhsMatches(lhs, current_configuration) == lhs = current_configuration

\* Mutant: the current configuration is not advanced.
AdvanceConfigurationSkipped(e, rhs) == e

\* rewrite_event: self._curr_config = rhs
AdvanceConfiguration(e, rhs) == [e EXCEPT !.curr_config = rhs]

\* ExecutionProofExp.rewrite_event
RewriteEventOp(e, rule, substitution) ==
    LET instantiated_axiom == Instantiate(rule.pattern, substitution) IN
    IF ~IsKoreRewrites(instantiated_axiom) THEN Outcome(e, "AssertionError")
    ELSE LET lhs == instantiated_axiom.rw_left
             rhs == instantiated_axiom.rw_right
         IN IF ~LhsMatches(lhs, e.curr_config) THEN Outcome(e, "AssertionError")
            ELSE IF \E i \in 1..Len(substitution) : ~HasFunctionalHead(substitution[i].plug)
                THEN Outcome(e, "AssertionError")
            ELSE LET e1 == AddAssumptionsForRewriteStep(e, rule, substitution)
                     proof == DynamicInst(LoadAxiom(rule.pattern), substitution)
                     e2 == AdvanceConfiguration(
                               [e1 EXCEPT !.claims = Append(@, instantiated_axiom),
                                          !.proofs = Append(@, proof)], rhs)
                     upd == VisitorUpdateConfiguration(e2.visitor, rhs)
                 IN Outcome([e2 EXCEPT !.visitor = upd.v], upd.err)

\* ExecutionProofExp.simplification_event: the with statement and the
\* assignment after it.
SimplificationEventOp(e, ordinal, substitution, location) ==
    LET entered == VisitorEnter(e.visitor) IN
    IF entered.err # "none" THEN Outcome(e, entered.err)
    ELSE LET called == VisitorCall(entered.v, ordinal, substitution, location)
             exited == VisitorExit(called.v)
         IN IF called.err # "none"
            THEN Outcome([e EXCEPT !.visitor = exited], called.err)
            ELSE Outcome([e EXCEPT !.visitor = exited,
                                   !.curr_config = exited.curr_config], "none")

-----------------------------------------------------------------------------
(* State *)

\* The engine and its visitor, as the variables hold them.
TheVisitor == Visitor(v_curr_config, v_attr_curr_config, stack, in_simplification)
TheEngine == Engine(e_init_config, e_curr_config, axioms, claims, proofs, TheVisitor)

SetVisitor(v) ==
    /\ v_curr_config' = v.curr_config
    /\ v_attr_curr_config' = v.attr_curr_config
    /\ stack' = v.stack
    /\ in_simplification' = v.in_simplification

SetEngine(e) ==
    /\ e_init_config' = e.init_config
    /\ e_curr_config' = e.curr_config
    /\ axioms' = e.axioms
    /\ claims' = e.claims
    /\ proofs' = e.proofs
    /\ SetVisitor(e.visitor)

\* Before anything is constructed: proof_expr is None.
Init ==
    /\ status = "start"
    /\ e_init_config = None
    /\ e_curr_config = None
    /\ axioms = {}
    /\ claims = <<>>
    /\ proofs = <<>>
    /\ v_curr_config = None
    /\ v_attr_curr_config = None
    /\ stack = <<>>
    /\ in_simplification = FALSE
    /\ trace = <<>>
    /\ lastCall = [op |-> "none"]
    /\ err = "none"
    /\ nevents = 0
    /\ conv = None
    /\ returned = None

\* The outcome of an operation on the engine: a failure ends the run.
Finish(out, live) ==
    /\ SetEngine(out.e)
    /\ err' = out.err
    /\ status' = IF out.err = "none" THEN live ELSE "failed"
    /\ nevents' = nevents + 1
    /\ UNCHANGED converterVars

-----------------------------------------------------------------------------
(* Operations on an engine constructed by the caller *)

Construct(init_config) ==
    /\ status = "start"
    /\ SetEngine(EngineInit(init_config))
    /\ status' = "direct"
    /\ lastCall' = [op |-> "__init__", init_config |-> init_config]
    /\ UNCHANGED <<trace, err, nevents, converterVars>>

RewriteEvent(rule, substitution) ==
    /\ status = "direct"
    /\ nevents < MaxEvents
    /\ lastCall' = [op |-> "rewrite_event", rule |-> rule, substitution |-> substitution]
    /\ LET out == RewriteEventOp(TheEngine, rule, substitution)
       IN Finish([e |-> out.v, err |-> out.err], "direct")
    /\ UNCHANGED trace

SimplificationEvent(ordinal, substitution, location) ==
    /\ status = "direct"
    /\ nevents < MaxEvents
    /\ lastCall' = [op |-> "simplification_event", ordinal |-> ordinal,
                    substitution |-> substitution, location |-> location]
    /\ LET out == SimplificationEventOp(TheEngine, ordinal, substitution, location)
       IN Finish([e |-> out.v, err |-> out.err], "direct")
    /\ UNCHANGED trace

\* ExecutionProofExp.finalize
Finalize ==
    /\ status = "direct"
    /\ nevents < MaxEvents
    /\ lastCall' = [op |-> "finalize"]
    /\ nevents' = nevents + 1
    /\ UNCHANGED <<status, engineVars, visitorVars, trace, err, converterVars>>

-----------------------------------------------------------------------------
(* ExecutionProofExp.from_proof_hints *)

\* One iteration of the loop over the hints.
FromProofHintsStep(hint) ==
    /\ status \in {"start", "replaying"}
    /\ Len(trace) < MaxEvents
    /\ trace' = Append(trace, hint)
    /\ lastCall' = [op |-> "from_proof_hints", hint |-> hint]
    /\ LET proof_expr == IF status = "start" THEN EngineInit(hint.configuration_before)
                         ELSE TheEngine
           out == IF hint.axiom.kind = "KRewritingRule"
                  THEN RewriteEventOp(proof_expr, hint.axiom, hint.substitutions)
                  ELSE Outcome(proof_expr, "NotImplementedError")
       IN Finish([e |-> out.v, err |-> out.err], "replaying")

\* Mutant: an empty trace is treated as an error.
FromProofHintsReturnRejectsEmpty ==
    /\ status \in {"start", "replaying"}
    /\ status' = IF status = "start" THEN "failed" ELSE "returned"
    /\ err' = IF status = "start" THEN "AssertionError" ELSE err
    /\ lastCall' = [op |-> "from_proof_hints_return"]
    /\ UNCHANGED <<engineVars, visitorVars, trace, nevents, converterVars>>

\* The hints are exhausted: the engine, or an empty ProofExp, is returned.
FromProofHintsReturn ==
    /\ status \in {"start", "replaying"}
    /\ status' = "returned"
    /\ lastCall' = [op |-> "from_proof_hints_return"]
    /\ UNCHANGED <<engineVars, visitorVars, trace, err, nevents, converterVars>>

Next ==
    \/ \E c \in InitConfigs : Construct(c)
    \/ \E r \in RewritingRules, s \in Substitutions : RewriteEvent(r, s)
    \/ \E o \in Ordinals, s \in Substitutions, l \in Locations : SimplificationEvent(o, s, l)
    \/ Finalize
    \/ \E h \in Hints : FromProofHintsStep(h)
    \/ FromProofHintsReturn

Spec == Init /\ [][Next]_vars

TypeOK ==
    /\ status \in {"start", "replaying", "returned", "direct", "failed", "outside", "inside"}
    /\ Len(claims) = Len(proofs)
    /\ nevents \in 0..(IF MaxEvents > MaxVisitorOps THEN MaxEvents ELSE MaxVisitorOps)

-----------------------------------------------------------------------------
(* A SimplificationVisitor used on its own: any sequence of __enter__,     *)
(* __call__, __exit__ and update_configuration.  status tells whether the  *)
(* caller is between an enter and the next exit ("inside") or not          *)
(* ("outside"); an exception is caught by the caller and the sequence      *)
(* goes on.                                                                *)

VisitorConfigs == {Ap1("a", Z), Ap1("c", Ap1("f", Z))}
VisitorOrdinals == {1, 3, 4}
\* The last substitution gives one result applied one variable after the
\* other and another applied at once; the last location resolves in some
\* roots and not in others.
VisitorSubstitutions ==
    {<<Entry(0, Z)>>, <<Entry(0, Ap1("s", EVar(1))), Entry(1, Z)>>}
VisitorLocations == {<<>>, <<0, 0>>}

VisitorSpecInit ==
    /\ status = "outside"
    /\ e_init_config = None
    /\ e_curr_config = None
    /\ axioms = {}
    /\ claims = <<>>
    /\ proofs = <<>>
    /\ v_curr_config \in VisitorConfigs
    /\ v_attr_curr_config = VisitorInit(v_curr_config).attr_curr_config
    /\ stack = VisitorInit(v_curr_config).stack
    /\ in_simplification = VisitorInit(v_curr_config).in_simplification
    /\ trace = <<>>
    /\ lastCall = [op |-> "none"]
    /\ err = "none"
    /\ nevents = 0
    /\ conv = None
    /\ returned = None


\* The outcome of a visitor method called by hand.
VisitorFinish(out) ==
    /\ SetVisitor(out.v)
    /\ err' = out.err
    /\ nevents' = nevents + 1
    /\ UNCHANGED <<engineVars, trace, converterVars>>

VEnter ==
    /\ status \in {"outside", "inside"}
    /\ nevents < MaxVisitorOps
    /\ lastCall' = [op |-> "enter"]
    /\ LET out == VisitorEnter(TheVisitor)
       IN /\ VisitorFinish(out)
          /\ status' = IF out.err = "none" THEN "inside" ELSE status

VCall(ordinal, substitution, location) ==
    /\ status \in {"outside", "inside"}
    /\ nevents < MaxVisitorOps
    /\ lastCall' = [op |-> "call", ordinal |-> ordinal, substitution |-> substitution,
                    location |-> location]
    /\ VisitorFinish(VisitorCall(TheVisitor, ordinal, substitution, location))
    /\ UNCHANGED status

VExit ==
    /\ status \in {"outside", "inside"}
    /\ nevents < MaxVisitorOps
    /\ lastCall' = [op |-> "exit"]
    /\ VisitorFinish(Outcome(VisitorExit(TheVisitor), "none"))
    /\ status' = "outside"

VUpdateConfiguration(new_current_configuration) ==
    /\ status \in {"outside", "inside"}
    /\ nevents < MaxVisitorOps
    /\ lastCall' = [op |-> "update_configuration", config |-> new_current_configuration]
    /\ VisitorFinish(VisitorUpdateConfiguration(TheVisitor, new_current_configuration))
    /\ UNCHANGED status

VisitorNext ==
    \/ VEnter
    \/ \E o \in VisitorOrdinals, s \in VisitorSubstitutions, l \in VisitorLocations :
          VCall(o, s, l)
    \/ VExit
    \/ \E c \in VisitorConfigs : VUpdateConfiguration(c)

VisitorSpec == VisitorSpecInit /\ [][VisitorNext]_vars

-----------------------------------------------------------------------------
(* Properties of rewrite_event *)

\* The instantiated rule of a rewrite_event call, and its two sides.
InstantiatedAxiom(call) == Instantiate(call.rule.pattern, call.substitution)
AllFunctional(substitution) ==
    \A i \in 1..Len(substitution) : HasFunctionalHead(substitution[i].plug)

C2_MismatchFailsUnchanged ==
    [][(/\ lastCall'.op = "rewrite_event"
        /\ InstantiatedAxiom(lastCall').rw_left # e_curr_config)
       => (/\ err' # "none"
           /\ status' = "failed"
           /\ UNCHANGED <<engineVars, visitorVars>>)]_vars

\* A mismatching rewrite_event has failed on an engine that had already
\* taken a rewrite step.
C2_Witness ==
    /\ lastCall.op = "rewrite_event"
    /\ InstantiatedAxiom(lastCall).rw_left # e_curr_config
    /\ err = "AssertionError"
    /\ Len(claims) >= 1

-----------------------------------------------------------------------------
(* Properties of from_proof_hints *)

\* The instantiated rule of the i-th hint of a trace.
HintClaim(tr, i) == Instantiate(tr[i].axiom.pattern, tr[i].substitutions)

\* C(i): the configuration after the i-th step of a trace, C(0) before the first.
ConfigAfter(tr, i) ==
    IF i = 0 THEN tr[1].configuration_before ELSE HintClaim(tr, i).rw_right

\* Every step is a rewrite step and step i rewrites C(i-1) to C(i).
RewriteTrace(tr) ==
    /\ tr # <<>>
    /\ \A i \in 1..Len(tr) :
          /\ tr[i].axiom.kind = "KRewritingRule"
          /\ HintClaim(tr, i).rw_left = ConfigAfter(tr, i - 1)

\* What replaying a rewrite trace must have produced.
Replayed(tr) ==
    /\ err = "none"
    /\ status # "failed"
    /\ e_curr_config = ConfigAfter(tr, Len(tr))
    /\ e_init_config = ConfigAfter(tr, 0)
    /\ Len(claims) = Len(tr)
    /\ Len(proofs) = Len(tr)
    /\ \A i \in 1..Len(tr) :
          /\ claims[i] = HintClaim(tr, i)
          /\ Conclusion(proofs[i]) = claims[i]

\* C3 as stated: whenever the hints consumed so far form a trace of n >= 1
\* rewrite steps in which step i rewrites C(i-1) to C(i), the engine has
\* current configuration C(n), initial configuration C(0), and the n
\* instantiated rules as claims, each proved by the proof at the same index.
C3_Original == RewriteTrace(trace) => Replayed(trace)

\* C3 amended: the same, for traces in which every substituted pattern has
\* a head symbol that is registered as functional.
C3_ReplayOfRewriteTrace ==
    (/\ RewriteTrace(trace)
     /\ \A i \in 1..Len(trace) : AllFunctional(trace[i].substitutions))
    => Replayed(trace)

\* from_proof_hints has returned after replaying at least two rewrite steps
\* with non-empty substitutions.
C3_Witness ==
    /\ status = "returned"
    /\ Len(trace) >= 2
    /\ RewriteTrace(trace)
    /\ \A i \in 1..Len(trace) :
          trace[i].substitutions # <<>> /\ AllFunctional(trace[i].substitutions)

\* C9: a hint whose axiom is an equational rule does not stop the replay of
\* a trace that began with a rewrite step: from_proof_hints hands it to the
\* visitor instead of giving up.
C9_EquationalHintsReplayed ==
    (/\ Len(trace) >= 2
     /\ trace[1].axiom.kind = "KRewritingRule"
     /\ trace[Len(trace)].axiom.kind = "KEquationalRule")
    => err # "NotImplementedError"

\* C10: when there are no hints, from_proof_hints returns without an error
\* and what it returns has no claims and no proofs.
C10_EmptyTrace ==
    [][(status = "start" /\ lastCall'.op = "from_proof_hints_return")
       => (/\ status' = "returned"
           /\ err' = "none"
           /\ claims' = <<>>
           /\ proofs' = <<>>)]_vars

\* from_proof_hints has returned for an empty trace.
C10_Witness ==
    /\ status = "returned"
    /\ trace = <<>>
    /\ lastCall.op = "from_proof_hints_return"

-----------------------------------------------------------------------------
(* Properties of simplification_event and of the visitor's scope *)

\* The simplification result of a call: the rule's right side after the
\* requires-clause substitutions and then the substitutions of the call.
SimplificationResult(call) ==
    ApplySubstitutions(
        ApplySubstitutions(GetAxiom(call.ordinal).right,
                           GetAxiom(call.ordinal).substitutions_from_requires),
        call.substitution)

\* The call names an equational rule and a location that exists under root.
ValidCall(call, root) ==
    /\ GetAxiom(call.ordinal).kind = "KEquationalRule"
    /\ Resolves(call.location, root)

C6_ScopeReleased == lastCall.op = "simplification_event" => ~in_simplification

C8_RewriteDuringBatchFails ==
    [][(/\ lastCall'.op = "rewrite_event"
        /\ (in_simplification \/ stack # <<>>))
       => (err' # "none" /\ status' = "failed")]_vars

\* A rewrite_event whose left side matched has been refused by
\* update_configuration because a frame is still on the stack.
C8_Witness ==
    /\ lastCall.op = "rewrite_event"
    /\ err = "AssertionError"
    /\ stack # <<>>
    /\ InstantiatedAxiom(lastCall).rw_left = v_curr_config
    /\ AllFunctional(lastCall.substitution)

\* C11: a rewrite_event that fails, for whatever reason, leaves the claims,
\* the proofs and the current configuration as they were before the call.
C11_FailedRewriteLeavesNoPartialState ==
    [][(lastCall'.op = "rewrite_event" /\ err' # "none")
       => UNCHANGED <<claims, proofs, e_curr_config>>]_vars

-----------------------------------------------------------------------------
(* Kore: the abstract syntax of the source specification (pyk.kore.syntax) *)

KSort(n) == [sort_name |-> n]
Str(n) == [str |-> n]
\* Rewrites, And and Or: a connective k of a sort over two patterns.
KBinary(k, s, l, r) == [k |-> k, sort |-> s, left |-> l, right |-> r]
KApp(symbol, sorts, args) == [k |-> "App", symbol |-> symbol, sorts |-> sorts, args |-> args]
KEVar(name, s) == [k |-> "EVar", name |-> name, sort |-> s]
KTop(s) == [k |-> "Top", sort |-> s]
KDV(s, value) == [k |-> "DV", sort |-> s, value |-> value]
KNot(s, p) == [k |-> "Not", sort |-> s, pattern |-> p]

\* The notations the converter builds (proof_generation.proofs.kore_lemmas):
\* KoreAnd, KoreOr, KoreApplies, KoreTop, KoreDv, Cell and KoreNestedCells,
\* each a class of its own over its arguments.
Notation(name, args) == [notation |-> name, args |-> args]
IsNotation(p, name) == DOMAIN p = {"notation", "args"} /\ p.notation = name

Mu(v, b) == [mu_var |-> v, mu_body |-> b]
SVar(i) == [sv |-> i]
Bot == Mu(SVar(0), SVar(0))
Top == Implies(Bot, Bot)

\* 'kore_' + name and 'kore_sort_' + name
Prefixed(prefix, name) == [prefix |-> prefix, name |-> name]

ConvertedAxiom(kind, pattern) == [kind |-> kind, pattern |-> pattern]

\* KoreConverter.GENERATED_TOP_SYMBOL
GENERATED_TOP_SYMBOL == "Lbl'-LT-'generatedTop'-GT-'"

\* is_cell: the string matched by the group of Lbl'-LT-'(.+)'-GT-', or None.
CellName(kore_application) ==
    IF kore_application.k # "App" THEN None
    ELSE CASE kore_application.symbol = GENERATED_TOP_SYMBOL -> Str("generatedTop")
           [] kore_application.symbol = "Lbl'-LT-'k'-GT-'" -> Str("k")
           [] kore_application.symbol = "Lbl'-LT-'state'-GT-'" -> Str("state")
           [] OTHER -> None

-----------------------------------------------------------------------------
(* KoreConverter *)

\* The symbols the definition declares with the attribute functional
\* (_collect_functional_symbols).
RawFunctionalSymbols == {"inj", "Lbl'-LT-'k'-GT-'"}

\* KoreConverter.__init__: the caches, each dict an insertion-ordered
\* sequence of entries.
ConverterInit ==
    [symbols |-> <<>>, metavars |-> <<>>, axioms_cache |-> <<>>,
     functional_symbols |-> {}, cell_symbols |-> {GENERATED_TOP_SYMBOL}]

\* The outcome of a conversion: the converter after it, and the value or the error.
Conv(c, val, e) == [c |-> c, val |-> val, err |-> e]

\* KoreConverter._resolve_symbol
ResolveSymbol(c, pattern) ==
    IF DOMAIN pattern = {"str"}
    THEN LET name == pattern.str IN
         IF name \in Keys(c.symbols) THEN Conv(c, Lookup(c.symbols, name), "none")
         ELSE LET sym == Symbol(Prefixed("kore_", name))
                  c1 == [c EXCEPT !.symbols = Append(@, Entry(name, sym))]
                  c2 == IF name \in RawFunctionalSymbols
                        THEN [c1 EXCEPT !.functional_symbols = @ \cup {sym}]
                        ELSE c1
              IN Conv(c2, sym, "none")
    ELSE IF DOMAIN pattern = {"sort_name"}
    THEN LET name == pattern.sort_name IN
         IF name \in Keys(c.symbols) THEN Conv(c, Lookup(c.symbols, name), "none")
         ELSE LET sym == Symbol(Prefixed("kore_sort_", name))
              IN Conv([c EXCEPT !.symbols = Append(@, Entry(name, sym))], sym, "none")
    ELSE Conv(c, None, "NotImplementedError")

\* Mutant: the metavariables are numbered from 1.
ResolveMetavarFromOne(c, name) ==
    IF name \in Keys(c.metavars) THEN Conv(c, Lookup(c.metavars, name), "none")
    ELSE LET mv == MetaVar(Len(c.metavars) + 1)
         IN Conv([c EXCEPT !.metavars = Append(@, Entry(name, mv))], mv, "none")

\* KoreConverter._resolve_metavar
ResolveMetavar(c, name) ==
    IF name \in Keys(c.metavars) THEN Conv(c, Lookup(c.metavars, name), "none")
    ELSE LET mv == MetaVar(Len(c.metavars))
         IN Conv([c EXCEPT !.metavars = Append(@, Entry(name, mv))], mv, "none")

\* [self._resolve_symbol(sort) for sort in sorts]
RECURSIVE ResolveSymbols(_, _)
ResolveSymbols(c, sorts) ==
    IF sorts = <<>> THEN Conv(c, <<>>, "none")
    ELSE LET first == ResolveSymbol(c, sorts[1])
             rest == ResolveSymbols(first.c, Tail(sorts))
         IN Conv(rest.c, <<first.val>> \o rest.val, "none")

\* One statement after another: the value of the first, computed once, is what
\* the statements after it read.
Then(result, Continue(_)) == CHOOSE out \in {Continue(r) : r \in {result}} : TRUE

RECURSIVE ConvertPattern(_, _)
RECURSIVE ConvertCell(_, _)
RECURSIVE ConvertPatterns(_, _, _)

\* The conversions of a list of patterns, left to right; inside a cell the
\* children that are cells are converted by convert_cell.
ConvertPatterns(c, patterns, in_cell) ==
    IF patterns = <<>> THEN Conv(c, <<>>, "none")
    ELSE Then(IF in_cell /\ CellName(patterns[1]) # None
              THEN ConvertCell(c, patterns[1])
              ELSE ConvertPattern(c, patterns[1]),
              LAMBDA first :
                IF first.err # "none" THEN Conv(first.c, None, first.err)
                ELSE Then(ConvertPatterns(first.c, Tail(patterns), in_cell),
                          LAMBDA rest :
                            IF rest.err # "none" THEN Conv(rest.c, None, rest.err)
                            ELSE Conv(rest.c, <<first.val>> \o rest.val, "none")))

\* Mutant: the cell converted last is the only head kept as a cell.
ConvertCellForgetting(c, kore_application) ==
    LET cell_name == CellName(kore_application) IN
    IF cell_name = None THEN Conv(c, None, "AssertionError")
    ELSE LET resolved == ResolveSymbol(c, cell_name)
             cell_symbol == resolved.val
             c1 == [resolved.c EXCEPT !.cell_symbols = {kore_application.symbol}]
             c2 == IF kore_application.symbol \in RawFunctionalSymbols
                   THEN [c1 EXCEPT !.functional_symbols = @ \cup {cell_symbol}]
                   ELSE c1
         IN IF kore_application.args = <<>> THEN Conv(c2, cell_symbol, "none")
            ELSE Then(ConvertPatterns(c2, kore_application.args, TRUE),
                      LAMBDA children :
                        IF children.err # "none" THEN Conv(children.c, None, children.err)
                        ELSE LET cells_chained == Chain(children.val) IN
                             IF \E i \in 1..Len(children.val) :
                                   IsNotation(children.val[i], "Cell")
                             THEN IF ~IsApp(cells_chained)
                                  THEN Conv(children.c, None, "AssertionError")
                                  ELSE Conv(children.c,
                                            Notation("KoreNestedCells",
                                                     <<cell_symbol, cells_chained>>),
                                            "none")
                             ELSE Conv(children.c,
                                       Notation("Cell", <<cell_symbol, cells_chained>>),
                                       "none"))

\* convert_cell, nested in KoreConverter._convert_pattern
ConvertCell(c, kore_application) ==
    LET cell_name == CellName(kore_application) IN
    IF cell_name = None THEN Conv(c, None, "AssertionError")
    ELSE LET resolved == ResolveSymbol(c, cell_name)
             cell_symbol == resolved.val
             c1 == [resolved.c EXCEPT !.cell_symbols = @ \cup {kore_application.symbol}]
             c2 == IF kore_application.symbol \in RawFunctionalSymbols
                   THEN [c1 EXCEPT !.functional_symbols = @ \cup {cell_symbol}]
                   ELSE c1
         IN IF kore_application.args = <<>> THEN Conv(c2, cell_symbol, "none")
            ELSE Then(ConvertPatterns(c2, kore_application.args, TRUE),
                      LAMBDA children :
                        IF children.err # "none" THEN Conv(children.c, None, children.err)
                        ELSE LET cells_chained == Chain(children.val) IN
                             IF \E i \in 1..Len(children.val) :
                                   IsNotation(children.val[i], "Cell")
                             THEN IF ~IsApp(cells_chained)
                                  THEN Conv(children.c, None, "AssertionError")
                                  ELSE Conv(children.c,
                                            Notation("KoreNestedCells",
                                                     <<cell_symbol, cells_chained>>),
                                            "none")
                             ELSE Conv(children.c,
                                       Notation("Cell", <<cell_symbol, cells_chained>>),
                                       "none"))

\* The conversion of Rewrites, And and Or: the sort, then the two sides.
ConvertBinary(pattern, sort, left, right) ==
    IF left.err # "none" THEN Conv(left.c, None, left.err)
    ELSE IF right.err # "none" THEN Conv(right.c, None, right.err)
    ELSE Conv(right.c,
              CASE pattern.k = "Rewrites" -> KoreRewrites(sort.val, left.val, right.val)
                [] pattern.k = "And" -> Notation("KoreAnd", <<sort.val, left.val, right.val>>)
                [] pattern.k = "Or" -> Notation("KoreOr", <<sort.val, left.val, right.val>>),
              "none")

\* KoreConverter._convert_pattern; the tuple of sorts of KoreApplies is one
\* argument of the notation.
ConvertPattern(c, pattern) ==
    IF pattern.k \in {"Rewrites", "And", "Or"}
    THEN LET sort == ResolveSymbol(c, pattern.sort) IN
         Then(ConvertPattern(sort.c, pattern.left),
              LAMBDA left :
                Then(ConvertPattern(left.c, pattern.right),
                     LAMBDA right : ConvertBinary(pattern, sort, left, right)))
    ELSE IF pattern.k = "App"
    THEN IF pattern.symbol \in c.cell_symbols THEN ConvertCell(c, pattern)
         ELSE LET app_symbol == ResolveSymbol(c, Str(pattern.symbol)) IN
              Then(ConvertPatterns(app_symbol.c, pattern.args, FALSE),
                   LAMBDA args :
                     IF args.err # "none" THEN Conv(args.c, None, args.err)
                     ELSE LET sorts == ResolveSymbols(args.c, pattern.sorts)
                              args_chain == Chain(<<app_symbol.val>> \o args.val)
                              application_sorts ==
                                  IF sorts.val # <<>> THEN sorts.val ELSE <<Top>>
                          IN Conv(sorts.c,
                                  Notation("KoreApplies",
                                           <<[tuple |-> application_sorts], args_chain>>),
                                  "none"))
    ELSE IF pattern.k = "EVar" THEN ResolveMetavar(c, pattern.name)
    ELSE IF pattern.k = "Top"
    THEN LET sort == ResolveSymbol(c, pattern.sort)
         IN Conv(sort.c, Notation("KoreTop", <<sort.val>>), "none")
    ELSE IF pattern.k = "DV"
    THEN LET sort == ResolveSymbol(c, pattern.sort)
             value == ResolveSymbol(sort.c, Str(pattern.value))
         IN Conv(value.c, Notation("KoreDv", <<sort.val, value.val>>), "none")
    ELSE Conv(c, None, "NotImplementedError")

\* KoreConverter.convert_substitutions: a dict from the id of each variable
\* to the conversion of its pattern, in the order of the given dict.
RECURSIVE ConvertSubstitutions(_, _)
ConvertSubstitutions(c, subst) ==
    IF subst = <<>> THEN Conv(c, <<>>, "none")
    ELSE LET id == subst[1].key IN
         IF id \notin Keys(c.metavars) THEN Conv(c, None, "AssertionError")
         ELSE Then(ConvertPattern(c, subst[1].plug),
                   LAMBDA converted :
                     IF converted.err # "none" THEN Conv(converted.c, None, converted.err)
                     ELSE Then(ConvertSubstitutions(converted.c, Tail(subst)),
                               LAMBDA rest :
                                 IF rest.err # "none" THEN Conv(rest.c, None, rest.err)
                                 ELSE Conv(rest.c,
                                           <<Entry(Lookup(c.metavars, id).mv, converted.val)>>
                                               \o rest.val,
                                           "none")))

\* Mutant: the axiom is remembered without its kind.
ConvertAxiomMisfiled(c, kore_axiom) ==
    IF kore_axiom \in Keys(c.axioms_cache)
    THEN Conv(c, Lookup(c.axioms_cache, kore_axiom), "none")
    ELSE LET is_rewrite == kore_axiom.pattern.k = "Rewrites"
             pattern == kore_axiom.pattern
         IN IF is_rewrite /\ (pattern.left.k # "And" \/ pattern.right.k # "And")
            THEN Conv(c, None, "AssertionError")
            ELSE LET axiom_type == IF is_rewrite THEN "RewriteRule" ELSE "Unclassified"
                     preprocessed_pattern ==
                         IF is_rewrite
                         THEN KBinary("Rewrites", pattern.sort, pattern.left.left,
                                      pattern.right.left)
                         ELSE pattern
                     converted == ConvertPattern(c, preprocessed_pattern)
                 IN IF converted.err # "none" THEN Conv(converted.c, None, converted.err)
                    ELSE LET converted_axiom == ConvertedAxiom(axiom_type, converted.val)
                         IN Conv([converted.c EXCEPT !.axioms_cache =
                                     Append(@, Entry(kore_axiom, ConvertedAxiom("Unclassified", converted.val)))],
                                 converted_axiom, "none")

\* Mutant: the side conditions of a rewrite axiom are converted too.
ConvertAxiomWithConditions(c, kore_axiom) ==
    IF kore_axiom \in Keys(c.axioms_cache)
    THEN Conv(c, Lookup(c.axioms_cache, kore_axiom), "none")
    ELSE LET is_rewrite == kore_axiom.pattern.k = "Rewrites"
             pattern == kore_axiom.pattern
         IN IF is_rewrite /\ (pattern.left.k # "And" \/ pattern.right.k # "And")
            THEN Conv(c, None, "AssertionError")
            ELSE LET axiom_type == IF is_rewrite THEN "RewriteRule" ELSE "Unclassified"
                     preprocessed_pattern == pattern
                     converted == ConvertPattern(c, preprocessed_pattern)
                 IN IF converted.err # "none" THEN Conv(converted.c, None, converted.err)
                    ELSE LET converted_axiom == ConvertedAxiom(axiom_type, converted.val)
                         IN Conv([converted.c EXCEPT !.axioms_cache =
                                     Append(@, Entry(kore_axiom, converted_axiom))],
                                 converted_axiom, "none")

\* KoreConverter._convert_axiom
ConvertAxiom(c, kore_axiom) ==
    IF kore_axiom \in Keys(c.axioms_cache)
    THEN Conv(c, Lookup(c.axioms_cache, kore_axiom), "none")
    ELSE LET is_rewrite == kore_axiom.pattern.k = "Rewrites"
             pattern == kore_axiom.pattern
         IN IF is_rewrite /\ (pattern.left.k # "And" \/ pattern.right.k # "And")
            THEN Conv(c, None, "AssertionError")
            ELSE LET axiom_type == IF is_rewrite THEN "RewriteRule" ELSE "Unclassified"
                     preprocessed_pattern ==
                         IF is_rewrite
                         THEN KBinary("Rewrites", pattern.sort, pattern.left.left,
                                      pattern.right.left)
                         ELSE pattern
                     converted == ConvertPattern(c, preprocessed_pattern)
                 IN IF converted.err # "none" THEN Conv(converted.c, None, converted.err)
                    ELSE LET converted_axiom == ConvertedAxiom(axiom_type, converted.val)
                         IN Conv([converted.c EXCEPT !.axioms_cache =
                                     Append(@, Entry(kore_axiom, converted_axiom))],
                                 converted_axiom, "none")

\* Mutant: every axiom of the input is kept, duplicates included.
RECURSIVE OrganizeAxiomsKeepingDuplicates(_)
OrganizeAxiomsKeepingDuplicates(added_axioms) ==
    IF added_axioms = <<>> THEN <<>>
    ELSE LET organized_axioms == OrganizeAxiomsKeepingDuplicates(SubSeq(added_axioms, 1, Len(added_axioms) - 1))
             axiom == added_axioms[Len(added_axioms)]
         IN IF axiom.kind \notin Keys(organized_axioms)
            THEN Append(organized_axioms, Entry(axiom.kind, <<axiom>>))
            ELSE [i \in 1..Len(organized_axioms) |->
                    IF organized_axioms[i].key # axiom.kind THEN organized_axioms[i]
                    ELSE Entry(axiom.kind, Append(organized_axioms[i].plug, axiom))]

\* KoreConverter._organize_axioms: a dict from kind to list, in insertion order.
RECURSIVE OrganizeAxioms(_)
OrganizeAxioms(added_axioms) ==
    IF added_axioms = <<>> THEN <<>>
    ELSE LET organized_axioms == OrganizeAxioms(SubSeq(added_axioms, 1, Len(added_axioms) - 1))
             axiom == added_axioms[Len(added_axioms)]
         IN IF axiom.kind \notin Keys(organized_axioms)
            THEN Append(organized_axioms, Entry(axiom.kind, <<axiom>>))
            ELSE [i \in 1..Len(organized_axioms) |->
                    IF organized_axioms[i].key # axiom.kind THEN organized_axioms[i]
                    ELSE IF \E j \in 1..Len(organized_axioms[i].plug) :
                                organized_axioms[i].plug[j] = axiom
                    THEN organized_axioms[i]
                    ELSE Entry(axiom.kind, Append(organized_axioms[i].plug, axiom))]

\* Mutant: the head of a substituted pattern need not be registered.
ConstructSubstAxiomsUnguarded(c, hint) ==
    Conv(c, [i \in 1..Len(hint.substitutions) |->
                ConvertedAxiom("FunctionalSymbol", Functional(hint.substitutions[i].plug))],
         "none")

\* KoreConverter._construct_subst_axioms
ConstructSubstAxioms(c, hint) ==
    IF \E i \in 1..Len(hint.substitutions) :
          \/ ~IsSymbol(NaryHead(hint.substitutions[i].plug))
          \/ NaryHead(hint.substitutions[i].plug) \notin c.functional_symbols
    THEN Conv(c, None, "AssertionError")
    ELSE Conv(c, [i \in 1..Len(hint.substitutions) |->
                    ConvertedAxiom("FunctionalSymbol", Functional(hint.substitutions[i].plug))],
              "none")

\* KoreConverter._construct_event_axioms, over events "FunEvent" and "HookEvent"
RECURSIVE ConstructEventAxioms(_)
ConstructEventAxioms(functional_events) ==
    IF functional_events = <<>> THEN <<>>
    ELSE LET event == functional_events[1]
             pattern == Implies(EVar(0), EVar(0))
         IN (IF event = "FunEvent" THEN <<ConvertedAxiom("FunctionEvent", pattern)>> ELSE <<>>)
            \o (IF event = "HookEvent" THEN <<ConvertedAxiom("HookEvent", pattern)>> ELSE <<>>)
            \o ConstructEventAxioms(Tail(functional_events))

\* KoreConverter.collect_functional_axioms
ConverterCollectFunctionalAxioms(c, hint) ==
    LET added_axioms == ConstructSubstAxioms(c, hint) IN
    IF added_axioms.err # "none" THEN added_axioms
    ELSE Conv(c, OrganizeAxioms(added_axioms.val
                                \o ConstructEventAxioms(hint.functional_events)), "none")

\* KoreConverter._retrieve_axioms: the axioms of the definition, in order.
\*   0: a rewrite rule with side conditions, over a configuration of two cells
\*   1: a Rewrites whose sides are not conjunctions
\*   2: an axiom that is not a Rewrites
\*   3: an axiom made of a construct the converter does not support
\*   4: a cell whose only child is a cell
\*   5: a cell whose only child is a cell with cells in it
\*   6: a cell with an empty cell and a value in it
AxiomsToChooseFrom ==
    LET SortTop == KSort("SortGeneratedTopCell")
        SortInt == KSort("SortInt")
        VarX == KEVar("X", SortInt)
        VarY == KEVar("Y", SortInt)
        Inj(p) == KApp("inj", <<SortInt, KSort("SortKItem")>>, <<p>>)
        GeneratedTop(args) == KApp(GENERATED_TOP_SYMBOL, <<>>, args)
        KCell(args) == KApp("Lbl'-LT-'k'-GT-'", <<>>, args)
        StateCell(args) == KApp("Lbl'-LT-'state'-GT-'", <<>>, args)
        Unsupported == KNot(SortTop, KTop(SortTop))
    IN << [pattern |-> KBinary("Rewrites", SortTop,
              KBinary("And", SortTop,
                      GeneratedTop(<<KCell(<<Inj(VarX)>>), StateCell(<<VarY>>)>>), Unsupported),
              KBinary("And", SortTop,
                      GeneratedTop(<<KCell(<<Inj(VarY)>>), StateCell(<<VarY>>)>>), Unsupported))],
          [pattern |-> KBinary("Rewrites", SortTop, Inj(VarX), Inj(VarY))],
          [pattern |-> KBinary("Or", SortInt, KTop(SortInt), KDV(SortInt, "1"))],
          [pattern |-> Unsupported],
          [pattern |-> GeneratedTop(<<KCell(<<VarX>>)>>)],
          [pattern |-> GeneratedTop(<<KCell(<<KCell(<<VarX>>), StateCell(<<VarY>>)>>)>>)],
          [pattern |-> GeneratedTop(<<KCell(<<>>), KDV(SortInt, "1")>>)] >>

\* self._axioms_to_choose_from[ordinal]: a list is indexed from its end by a
\* negative index.
AxiomForOrdinal(ordinal) ==
    AxiomsToChooseFrom[IF ordinal >= 0 THEN ordinal + 1
                                       ELSE Len(AxiomsToChooseFrom) + ordinal + 1]

\* KoreConverter.retrieve_axiom_for_ordinal
RetrieveAxiomForOrdinal(c, ordinal) ==
    IF ~(ordinal < Len(AxiomsToChooseFrom)) THEN Conv(c, None, "AssertionError")
    ELSE IF ordinal < -Len(AxiomsToChooseFrom) THEN Conv(c, None, "IndexError")
    ELSE ConvertAxiom(c, AxiomForOrdinal(ordinal))

-----------------------------------------------------------------------------
(* The converter driven by hand: every call is made on the converter the  *)
(* calls before it left, whether they failed or not.                       *)

\* Longest sequence of converter calls explored.
MaxConvOps == 3
\* Longest list of axioms given to _organize_axioms.
MaxAxiomList == 3

SeqsUpTo(S, n) == UNION {[1..m -> S] : m \in 0..n}

\* Hints: substitutions of patterns whose heads can be registered functional
\* (inj, the k cell), cannot (the state cell) or are no symbol, and up to two
\* function or hook events.
KoreHints ==
    LET KoreInj == Symbol(Prefixed("kore_", "inj"))
        KoreK == Symbol(Prefixed("kore_", "k"))
        InjApp == App(KoreInj, MetaVar(0))
        substitutions ==
            {<<>>, <<Entry(0, KoreK)>>, <<Entry(0, Symbol(Prefixed("kore_", "state")))>>,
             <<Entry(0, App(MetaVar(0), KoreInj))>>,
             <<Entry(0, InjApp), Entry(1, KoreK)>>,
             <<Entry(0, InjApp), Entry(1, InjApp)>>}
        events == SeqsUpTo({"FunEvent", "HookEvent"}, 2)
    IN {[substitutions |-> s, functional_events |-> <<>>] : s \in substitutions}
       \cup {[substitutions |-> s, functional_events |-> e] :
                s \in {<<>>}, e \in events}
       \cup {[substitutions |-> <<Entry(0, InjApp), Entry(1, KoreK)>>,
              functional_events |-> <<"FunEvent", "HookEvent">>]}

ConverterSpecInit ==
    /\ status = "converter"
    /\ e_init_config = None
    /\ e_curr_config = None
    /\ axioms = {}
    /\ claims = <<>>
    /\ proofs = <<>>
    /\ v_curr_config = None
    /\ v_attr_curr_config = None
    /\ stack = <<>>
    /\ in_simplification = FALSE
    /\ trace = <<>>
    /\ lastCall = [op |-> "none"]
    /\ err = "none"
    /\ nevents = 0
    /\ conv = ConverterInit
    /\ returned = None

\* The outcome of a converter method called by hand.
ConverterFinish(out) ==
    /\ conv' = out.c
    /\ returned' = out.val
    /\ err' = out.err
    /\ nevents' = nevents + 1
    /\ UNCHANGED <<status, engineVars, visitorVars>>

\* The trace keeps the axioms retrieved so far, each with the value returned.
ConvRetrieveAxiomForOrdinal(ordinal) ==
    /\ status = "converter"
    /\ nevents < MaxConvOps
    /\ lastCall' = [op |-> "retrieve_axiom_for_ordinal", ordinal |-> ordinal]
    /\ LET out == RetrieveAxiomForOrdinal(conv, ordinal)
       IN /\ ConverterFinish(out)
          /\ trace' = IF out.err = "none"
                      THEN Append(trace, [axiom |-> AxiomForOrdinal(ordinal),
                                          returned |-> out.val])
                      ELSE trace

ConvConvertPattern(pattern) ==
    /\ status = "converter"
    /\ nevents < MaxConvOps
    /\ lastCall' = [op |-> "convert_pattern", pattern |-> pattern]
    /\ ConverterFinish(ConvertPattern(conv, pattern))
    /\ UNCHANGED trace

ConvCollectFunctionalAxioms(hint) ==
    /\ status = "converter"
    /\ nevents < MaxConvOps
    /\ lastCall' = [op |-> "collect_functional_axioms", hint |-> hint]
    /\ ConverterFinish(ConverterCollectFunctionalAxioms(conv, hint))
    /\ UNCHANGED trace

ConvOrganizeAxioms(added_axioms) ==
    /\ status = "converter"
    /\ nevents < MaxConvOps
    /\ lastCall' = [op |-> "_organize_axioms", axioms |-> added_axioms]
    /\ ConverterFinish(Conv(conv, OrganizeAxioms(added_axioms), "none"))
    /\ UNCHANGED trace

ConvResolveSymbol(pattern) ==
    /\ status = "converter"
    /\ nevents < MaxConvOps
    /\ lastCall' = [op |-> "_resolve_symbol", pattern |-> pattern]
    /\ ConverterFinish(ResolveSymbol(conv, pattern))
    /\ UNCHANGED trace

ConvConvertSubstitutions(subst) ==
    /\ status = "converter"
    /\ nevents < MaxConvOps
    /\ lastCall' = [op |-> "convert_substitutions", subst |-> subst]
    /\ ConverterFinish(ConvertSubstitutions(conv, subst))
    /\ UNCHANGED trace

\* Substitutions of the variables X and Y of the axioms: of X alone, of X by Y
\* and then of Y, and of Y alone.
KoreSubstitutions ==
    LET SortInt == KSort("SortInt")
    IN {<<Entry("X", KDV(SortInt, "1"))>>,
        <<Entry("X", KEVar("Y", SortInt)), Entry("Y", KDV(SortInt, "1"))>>,
        <<Entry("Y", KEVar("X", SortInt))>>}

\* The ordinals run from the last axiom taken from the end of the list (-1) to
\* the first ordinal out of range; the patterns converted on their own are
\* the k cell, the configuration and the injection of the axioms; the lists
\* organized are over three axioms of two kinds; the name resolved is
\* resolved both as the name of a symbol and as the name of a sort.
ConverterNext ==
    \/ \E o \in -1..Len(AxiomsToChooseFrom) : ConvRetrieveAxiomForOrdinal(o)
    \/ \E p \in {AxiomsToChooseFrom[5].pattern.args[1],
                 AxiomsToChooseFrom[1].pattern.left.left,
                 AxiomsToChooseFrom[2].pattern.right} : ConvConvertPattern(p)
    \/ \E h \in KoreHints : ConvCollectFunctionalAxioms(h)
    \/ \E l \in SeqsUpTo({ConvertedAxiom("FunctionalSymbol", Functional(Symbol("k"))),
                          ConvertedAxiom("FunctionalSymbol", Functional(Symbol("inj"))),
                          ConvertedAxiom("FunctionEvent", Implies(EVar(0), EVar(0)))},
                         MaxAxiomList) : ConvOrganizeAxioms(l)
    \/ \E n \in {"inj"} : ConvResolveSymbol(Str(n)) \/ ConvResolveSymbol(KSort(n))
    \/ \E subst \in KoreSubstitutions : ConvConvertSubstitutions(subst)

ConverterSpec == ConverterSpecInit /\ [][ConverterNext]_vars

-----------------------------------------------------------------------------
(* Properties of the converter *)

\* The earlier retrievals of the axiom a call retrieves.
EarlierRetrievals(kore_axiom) == {i \in 1..Len(trace) : trace[i].axiom = kore_axiom}

\* C12: a retrieval of an axiom that was converted before, whatever was
\* converted in between, returns the ConvertedAxiom the first conversion
\* returned, and leaves the axiom cache as it was (it does not grow).
C12_ConverterIdempotence ==
    [][(lastCall'.op = "retrieve_axiom_for_ordinal" /\ err' = "none")
       => \A i \in EarlierRetrievals(AxiomForOrdinal(lastCall'.ordinal)) :
             /\ returned' = trace[i].returned
             /\ conv'.axioms_cache = conv.axioms_cache
             /\ Len(conv'.axioms_cache) = Len(conv.axioms_cache)]_vars

\* The same axiom retrieved twice, with another axiom converted in between.
C12_Witness ==
    /\ Len(trace) = 3
    /\ trace[1].axiom = trace[3].axiom
    /\ trace[2].axiom # trace[1].axiom
    /\ trace[1].axiom.pattern.k = "Rewrites"
    /\ Len(conv.axioms_cache) = 2


\* The position of the first occurrence of an axiom in a list.
FirstIndex(list, axiom) == CHOOSE i \in 1..Len(list) :
    /\ list[i] = axiom
    /\ \A j \in 1..(i - 1) : list[j] # axiom

\* What _organize_axioms owes for an input list: one group per kind that
\* occurs, holding the distinct axioms of the kind in order of first occurrence.
Organized(input, groups) ==
    /\ Keys(groups) = {input[i].kind : i \in 1..Len(input)}
    /\ \A g, h \in 1..Len(groups) : groups[g].key = groups[h].key => g = h
    /\ \A g \in 1..Len(groups) :
          LET group == groups[g].plug IN
          /\ {group[i] : i \in 1..Len(group)}
                = {input[i] : i \in {j \in 1..Len(input) : input[j].kind = groups[g].key}}
          /\ \A i, j \in 1..Len(group) :
                i < j => FirstIndex(input, group[i]) < FirstIndex(input, group[j])

\* C13: for every input list, _organize_axioms returns one group per kind
\* occurring in the input, each group holding exactly the distinct axioms of
\* its kind, each once, in the order of their first occurrence.
C13_AxiomGrouping ==
    lastCall.op = "_organize_axioms" => Organized(lastCall.axioms, returned)

\* The input [A, B, A], with A and B distinct axioms of one kind, organized to [A, B].
C13_Witness ==
    /\ lastCall.op = "_organize_axioms"
    /\ Len(lastCall.axioms) = 3
    /\ lastCall.axioms[1] = lastCall.axioms[3]
    /\ lastCall.axioms[1] # lastCall.axioms[2]
    /\ lastCall.axioms[1].kind = lastCall.axioms[2].kind
    /\ returned = <<Entry(lastCall.axioms[1].kind, <<lastCall.axioms[1], lastCall.axioms[2]>>)>>


\* The head symbol of a pattern is registered as functional in the converter.
RegisteredFunctional(p) ==
    /\ IsSymbol(NaryHead(p))
    /\ NaryHead(p) \in conv.functional_symbols

\* The axioms of one kind in the groups collect_functional_axioms returned.
GroupOf(groups, kind) == IF kind \in Keys(groups) THEN Lookup(groups, kind) ELSE <<>>

\* C14: generating the functional-symbol axioms of a substitution fails when
\* the head of a substituted pattern is not registered as functional; when
\* every head is registered it succeeds with, for each substituted pattern p,
\* one FunctionalSymbol axiom Exists(v, (v -> p) /\ (p -> v)), and no other.
C14_FunctionalSubstitutionGuard ==
    lastCall.op = "collect_functional_axioms" =>
        LET substitutions == lastCall.hint.substitutions
            plugs == {substitutions[i].plug : i \in 1..Len(substitutions)}
            group == GroupOf(returned, "FunctionalSymbol")
        IN IF \E p \in plugs : ~RegisteredFunctional(p)
           THEN err = "AssertionError" /\ returned = None
           ELSE /\ err = "none"
                /\ \A p \in plugs :
                      Cardinality({i \in 1..Len(group) :
                          group[i] = [kind |-> "FunctionalSymbol",
                                      pattern |-> Exists(0, And(Implies(EVar(0), p),
                                                                Implies(p, EVar(0))))]}) = 1
                /\ Len(group) = Cardinality(plugs)

\* A substitution of two patterns with registered heads, and its two axioms.
C14_Witness ==
    /\ lastCall.op = "collect_functional_axioms"
    /\ err = "none"
    /\ Len(lastCall.hint.substitutions) = 2
    /\ Len(GroupOf(returned, "FunctionalSymbol")) = 2


\* The kinds of the event axioms a list of events owes, in event order.
EventKinds(functional_events) ==
    [i \in 1..Len(functional_events) |->
        IF functional_events[i] = "FunEvent" THEN "FunctionEvent" ELSE "HookEvent"]

\* The kinds of the axioms of a group, in order.
KindsOf(group) == [i \in 1..Len(group) |-> group[i].kind]

\* C15: for a step with k function or hook events, collect_functional_axioms
\* yields one classified axiom per event, k in total: the FunctionEvent axioms
\* followed by the HookEvent axioms are as many as the events of each kind.
C15_OneAxiomPerEvent ==
    (lastCall.op = "collect_functional_axioms" /\ err = "none") =>
        LET kinds == EventKinds(lastCall.hint.functional_events)
            yielded == KindsOf(GroupOf(returned, "FunctionEvent"))
                       \o KindsOf(GroupOf(returned, "HookEvent"))
        IN /\ Len(yielded) = Len(kinds)
           /\ \A kind \in {"FunctionEvent", "HookEvent"} :
                 Cardinality({i \in 1..Len(yielded) : yielded[i] = kind})
                    = Cardinality({i \in 1..Len(kinds) : kinds[i] = kind})


\* The ordinals that select an axiom of the definition.
Selects(ordinal) ==
    /\ ordinal < Len(AxiomsToChooseFrom)
    /\ ordinal >= -Len(AxiomsToChooseFrom)

\* Rewrites(sort, And(lhs, cond_l), And(rhs, cond_r))
RewriteRuleShaped(pattern) ==
    /\ pattern.k = "Rewrites"
    /\ pattern.left.k = "And"
    /\ pattern.right.k = "And"

\* C16 as stated: an axiom whose pattern the converter can convert is
\* converted without failing, as a RewriteRule when it is shaped
\* Rewrites(sort, And(lhs, cond_l), And(rhs, cond_r)), as Unclassified otherwise.
C16_Original ==
    [][(/\ lastCall'.op = "retrieve_axiom_for_ordinal"
        /\ Selects(lastCall'.ordinal)
        /\ ~RewriteRuleShaped(AxiomForOrdinal(lastCall'.ordinal).pattern)
        /\ ConvertPattern(conv, AxiomForOrdinal(lastCall'.ordinal).pattern).err = "none")
       => /\ err' = "none"
          /\ returned'.kind = "Unclassified"]_vars

\* C16, amended: an axiom shaped Rewrites(sort, And(lhs, cond_l), And(rhs,
\* cond_r)) is converted from Rewrites(sort, lhs, rhs) alone and classified
\* RewriteRule; a Rewrites whose sides are not both conjunctions fails with
\* an assertion error and changes nothing; every other axiom is converted
\* whole and classified Unclassified.
C16_RewriteClassification ==
    [][(/\ lastCall'.op = "retrieve_axiom_for_ordinal"
        /\ Selects(lastCall'.ordinal))
       => LET kore_axiom == AxiomForOrdinal(lastCall'.ordinal)
              pattern == kore_axiom.pattern
              stripped == ConvertPattern(conv, KBinary("Rewrites", pattern.sort,
                                                       pattern.left.left, pattern.right.left))
              whole == ConvertPattern(conv, pattern)
          IN /\ err' = "none" =>
                   (returned'.kind = "RewriteRule" <=> RewriteRuleShaped(pattern))
             /\ err' = "none" =>
                   (returned'.kind = "Unclassified" <=> ~RewriteRuleShaped(pattern))
             /\ kore_axiom \notin Keys(conv.axioms_cache) =>
                   IF RewriteRuleShaped(pattern)
                   THEN /\ err' = stripped.err
                        /\ err' = "none" => returned'.pattern = stripped.val
                   ELSE IF pattern.k = "Rewrites"
                   THEN err' = "AssertionError" /\ conv' = conv
                   ELSE /\ err' = whole.err
                        /\ err' = "none" => returned'.pattern = whole.val]_vars

\* A Rewrites with sides that are no conjunctions has just failed, after a
\* rewrite rule with side conditions was converted.
C16_Witness ==
    /\ lastCall.op = "retrieve_axiom_for_ordinal"
    /\ Selects(lastCall.ordinal)
    /\ AxiomForOrdinal(lastCall.ordinal).pattern.k = "Rewrites"
    /\ ~RewriteRuleShaped(AxiomForOrdinal(lastCall.ordinal).pattern)
    /\ err = "AssertionError"
    /\ Len(trace) = 1
    /\ trace[1].returned.kind = "RewriteRule"
    /\ trace[1].axiom.pattern.left.right.k = "Not"


\* The Kore pattern whose conversion the last call returned, if it was one
\* whole pattern: an axiom that is no Rewrites, or the argument of convert_pattern.
ConvertedWhole ==
    IF lastCall.op = "convert_pattern" THEN lastCall.pattern
    ELSE IF /\ lastCall.op = "retrieve_axiom_for_ordinal"
            /\ Selects(lastCall.ordinal)
            /\ AxiomForOrdinal(lastCall.ordinal).pattern.k # "Rewrites"
    THEN AxiomForOrdinal(lastCall.ordinal).pattern
    ELSE None

\* The pattern a conversion returned, out of the ConvertedAxiom if there is one.
ReturnedPattern == IF lastCall.op = "convert_pattern" THEN returned ELSE returned.pattern

\* C19: the conversion of a cell (here the top cell, over children that all
\* convert) does not fail; it gives the head symbol when the cell has no
\* children, the nested-cells marker when a child is itself a cell, and the
\* plain cell marker otherwise.
C19_CellConversion ==
    (ConvertedWhole # None /\ ConvertedWhole.k = "App"
        /\ ConvertedWhole.symbol = GENERATED_TOP_SYMBOL)
    => /\ err = "none"
       /\ IF ConvertedWhole.args = <<>>
          THEN ReturnedPattern = Symbol(Prefixed("kore_", "generatedTop"))
          ELSE IF \E i \in 1..Len(ConvertedWhole.args) : CellName(ConvertedWhole.args[i]) # None
          THEN IsNotation(ReturnedPattern, "KoreNestedCells")
          ELSE IsNotation(ReturnedPattern, "Cell")


-----------------------------------------------------------------------------
(* Properties of the caches of the converter *)

\* C24: over any sequence of conversions the set of heads recognized as
\* cells only grows and always holds the generated-top symbol, the set of
\* symbols registered as functional only grows, and a name that has a cached
\* Symbol (the name of a cell among them) keeps it: a later occurrence of the
\* cell head resolves to the Symbol of its first occurrence.
C24_CellAndFunctionalSetsGrow ==
    [][/\ conv.cell_symbols \subseteq conv'.cell_symbols
       /\ GENERATED_TOP_SYMBOL \in conv'.cell_symbols
       /\ conv.functional_symbols \subseteq conv'.functional_symbols
       /\ \A name \in Keys(conv.symbols) \cap {"generatedTop", "k", "state"} :
             /\ name \in Keys(conv'.symbols)
             /\ Lookup(conv'.symbols, name) = Lookup(conv.symbols, name)
             /\ ResolveSymbol(conv', Str(name)).val = Lookup(conv.symbols, name)]_vars

\* The k cell converted on its own after it was discovered as a cell: all
\* three cell heads are known, and the cell has the Symbol cached for it.
C24_Witness ==
    /\ lastCall.op = "convert_pattern"
    /\ CellName(lastCall.pattern) = Str("k")
    /\ err = "none"
    /\ IsNotation(returned, "Cell")
    /\ returned.args[1] = Lookup(conv.symbols, "k")
    /\ Cardinality(conv.cell_symbols) = 3
    /\ conv.functional_symbols # {}

\* C27: retrieve_axiom_for_ordinal(i) returns the conversion of the axiom at
\* index i of the definition when 0 <= i < n, and fails for every other
\* ordinal, the negative ones included.  (The table of axioms is a constant
\* of the model: nothing can change it.)
C27_OrdinalRange ==
    [][lastCall'.op = "retrieve_axiom_for_ordinal"
       => IF lastCall'.ordinal \in 0..(Len(AxiomsToChooseFrom) - 1)
          THEN LET converted == ConvertAxiom(conv, AxiomsToChooseFrom[lastCall'.ordinal + 1])
               IN err' = converted.err /\ returned' = converted.val
          ELSE err' # "none"]_vars

\* C28: convert_pattern gives for a pattern what it gives for it on a
\* converter that has converted nothing yet, whatever was converted before.
C28_ConversionIndependentOfHistory ==
    [][(lastCall'.op = "convert_pattern" /\ err' = "none")
       => returned' = ConvertPattern(ConverterInit, lastCall'.pattern).val]_vars

\* C29: _resolve_symbol gives Symbol('kore_' + n) for the name n of a symbol
\* and Symbol('kore_sort_' + n) for a sort named n, whatever was resolved
\* before, and a symbol declared functional is registered as functional once
\* it has been resolved.
C29_ResolveSymbolByKindAndName ==
    lastCall.op = "_resolve_symbol" =>
        IF DOMAIN lastCall.pattern = {"str"}
        THEN /\ returned = Symbol(Prefixed("kore_", lastCall.pattern.str))
             /\ lastCall.pattern.str \in RawFunctionalSymbols
                    => returned \in conv.functional_symbols
        ELSE returned = Symbol(Prefixed("kore_sort_", lastCall.pattern.sort_name))

\* The names of the variables of a Kore pattern.
RECURSIVE KoreVariables(_)
KoreVariables(pattern) ==
    IF pattern.k = "EVar" THEN {pattern.name}
    ELSE IF pattern.k \in {"Rewrites", "And", "Or"}
    THEN KoreVariables(pattern.left) \cup KoreVariables(pattern.right)
    ELSE IF pattern.k = "App"
    THEN UNION {KoreVariables(pattern.args[i]) : i \in 1..Len(pattern.args)}
    ELSE IF pattern.k = "Not" THEN KoreVariables(pattern.pattern)
    ELSE {}

\* The variables seen in a converted pattern by the time the key at position
\* i of a substitution is looked up: those the converter knew before the
\* call, and those of the patterns the call converted for the keys before it.
SeenBefore(subst, i) ==
    Keys(conv.metavars) \cup UNION {KoreVariables(subst[j].plug) : j \in 1..(i - 1)}

\* C30: the known variable names map one to one onto the ids 0..n-1 in the
\* order they were first seen; a name keeps its id over every call; and
\* convert_substitutions fails, returning nothing, when a key names a
\* variable not seen in any converted pattern, and otherwise maps each key
\* to the id of its variable.
C30_MetavarNumbering ==
    [][/\ \A i \in 1..Len(conv'.metavars) : conv'.metavars[i].plug = MetaVar(i - 1)
       /\ \A i, j \in 1..Len(conv'.metavars) :
             conv'.metavars[i].key = conv'.metavars[j].key => i = j
       /\ Len(conv'.metavars) >= Len(conv.metavars)
       /\ \A i \in 1..Len(conv.metavars) : conv'.metavars[i] = conv.metavars[i]
       /\ lastCall'.op = "convert_substitutions" =>
             LET subst == lastCall'.subst IN
             IF \E i \in 1..Len(subst) : subst[i].key \notin SeenBefore(subst, i)
             THEN err' = "AssertionError" /\ returned' = None
             ELSE err' = "none" =>
                     /\ Len(returned') = Len(subst)
                     /\ \A i \in 1..Len(subst) :
                           /\ MetaVar(returned'[i].key) = Lookup(conv'.metavars, subst[i].key)
                           /\ returned'[i].plug =
                                 ConvertPattern(conv', subst[i].plug).val]_vars

\* A substitution of Y refused by a converter that has seen X only.
C30_Witness ==
    /\ lastCall.op = "convert_substitutions"
    /\ err = "AssertionError"
    /\ returned = None
    /\ Keys(conv.metavars) = {"X"}
    /\ lastCall.subst[1].key = "Y"

-----------------------------------------------------------------------------
(* Properties of the visitor's exit *)

\* What exit owes for a stack and a base configuration: exhausted frames
\* popped innermost first, each result spliced at its location into the new
\* top's result, whose count drops by one, or into the base configuration.
RECURSIVE Resolved(_, _)
Resolved(frames, base) ==
    LET n == Len(frames) IN
    IF n = 0 \/ frames[n].simplifications_left # 0
    THEN [stack |-> frames, base |-> base]
    ELSE IF n = 1
    THEN [stack |-> <<>>,
          base |-> UpdateSubterm(frames[1].location, base, frames[1].simplification_result)]
    ELSE Resolved([SubSeq(frames, 1, n - 1) EXCEPT ![n - 1] =
                      [@ EXCEPT !.simplifications_left = @ - 1,
                                !.simplification_result =
                                    UpdateSubterm(frames[n].location, @,
                                                  frames[n].simplification_result)]],
                  base)

-----------------------------------------------------------------------------
(* Properties of the visitor's call *)

\* What a call resolves its location against: the current configuration, or
\* the in-progress result of the top frame.
CallRoot ==
    IF stack = <<>> THEN v_curr_config ELSE stack[Len(stack)].simplification_result

C22_InvalidCallFailsUnchanged ==
    [][(lastCall'.op = "call" /\ ~ValidCall(lastCall', CallRoot))
       => /\ err' # "none"
          /\ stack' = stack
          /\ v_curr_config' = v_curr_config]_vars

\* Inside a scope, with a frame on the stack, a call with an equational rule
\* and a location that does not resolve in the result of that frame has failed.
C22_Witness ==
    /\ lastCall.op = "call"
    /\ in_simplification
    /\ stack # <<>>
    /\ GetAxiom(lastCall.ordinal).kind = "KEquationalRule"
    /\ ~Resolves(lastCall.location, stack[Len(stack)].simplification_result)
    /\ err = "LocationError"

\* A substitution applied one variable after the other, written from its
\* last variable back.
RECURSIVE OneAfterTheOther(_, _)
OneAfterTheOther(pattern, substitutions) ==
    IF substitutions = <<>> THEN pattern
    ELSE LET last == substitutions[Len(substitutions)]
         IN ApplyESubst(OneAfterTheOther(pattern,
                                         SubSeq(substitutions, 1, Len(substitutions) - 1)),
                        last.key, last.plug)

-----------------------------------------------------------------------------
(* Propositional: the proofs of the propositional lemmas, and their        *)
(* serialization                                                           *)

\* Proof.instantiate(var, plug): the proof with one metavariable replaced
\* throughout its conclusion and its sub-proofs.
ProofInstantiate(proof, var, plug) == DynamicInst(proof, <<Entry(var, plug)>>)

\* Every modus ponens of a proof is valid: its right proof concludes an
\* implication whose left side its left proof concludes.
RECURSIVE ValidProof(_)
ValidProof(proof) ==
    IF DOMAIN proof = {"mp_left", "mp_right"}
    THEN /\ ValidProof(proof.mp_left)
         /\ ValidProof(proof.mp_right)
         /\ IsImplication(Conclusion(proof.mp_right))
         /\ Conclusion(proof.mp_right).imp_left = Conclusion(proof.mp_left)
    ELSE IF DOMAIN proof = {"inst_of", "delta"} THEN ValidProof(proof.inst_of)
    ELSE TRUE

phi0 == MetaVar(0)
phi0_implies_phi0 == Implies(phi0, phi0)

\* Mutant: the inner modus ponens of imp_reflexivity is left out.
ImpReflexivityMisapplied ==
    ModusPonens(
        ProofInstantiate(Prop1, 1, phi0),
        ProofInstantiate(ProofInstantiate(Prop2, 1, phi0_implies_phi0), 2, phi0))

\* Propositional.imp_reflexivity
ImpReflexivity ==
    ModusPonens(
        ProofInstantiate(Prop1, 1, phi0),
        ModusPonens(
            ProofInstantiate(Prop1, 1, phi0_implies_phi0),
            ProofInstantiate(ProofInstantiate(Prop2, 1, phi0_implies_phi0), 2, phi0)))

\* Propositional.top_intro
TopIntro == ProofInstantiate(ImpReflexivity, 0, Bot)

\* Propositional.imp_transitivity
ImpTransitivity(left, right) ==
    LET left_conc == Conclusion(left)
        right_conc == Conclusion(right)
    IN IF ~IsImplication(left_conc) \/ ~IsImplication(right_conc)
       THEN Outcome(None, "AssertionError")
       ELSE IF right_conc.imp_left # left_conc.imp_right
       THEN Outcome(None, "AssertionError")
       ELSE LET step1 == ModusPonens(right, ProofInstantiate(Prop1, 0, right_conc))
                step2 == ModusPonens(step1,
                             ProofInstantiate(
                                 ProofInstantiate(
                                     ProofInstantiate(Prop2, 1, left_conc.imp_right),
                                     2, right_conc.imp_right),
                                 0, MetaVar(1)))
            IN Outcome(ModusPonens(left, ProofInstantiate(step2, 1, left_conc.imp_left)),
                       "none")

\* Propositional.claims and Propositional.proofs
PropositionalClaims == <<phi0_implies_phi0, Top>>
PropositionalProofs == <<ImpReflexivity, TopIntro>>

\* The loop over the proofs in Propositional.serialize: Proof.serialize writes
\* the proof, and takes the next claim to publish off the list when the proof
\* concludes it.
RECURSIVE SerializeProofs(_, _)
SerializeProofs(proofs_list, claims_left) ==
    IF proofs_list = <<>> THEN claims_left
    ELSE SerializeProofs(Tail(proofs_list),
                         IF claims_left # <<>> /\ claims_left[1] = Conclusion(proofs_list[1])
                         THEN Tail(claims_left)
                         ELSE claims_left)

\* Mutant: the claims left over are not looked at.
SerializeUnchecked(claims_list, proofs_list) == Outcome(None, "none")

\* Propositional.serialize, of a proof expression with the given claims and proofs.
Serialize(claims_list, proofs_list) ==
    IF SerializeProofs(proofs_list, claims_list) = <<>>
    THEN Outcome(None, "none")
    ELSE Outcome(None, "AssertionError")

-----------------------------------------------------------------------------
(* The propositional module driven by hand *)

\* Most calls made in one behaviour.
MaxPropOps == 2
\* Most claims and proofs of a serialized proof expression.
MaxClaims == 2

\* Pairs of proofs given to imp_transitivity: proofs of A -> B and B -> C,
\* the lemma proved in the module itself, and pairs the method refuses (a
\* conclusion that is no implication, middle patterns that differ).
PropProofPairs ==
    LET patterns == {Symbol("0"), Symbol("1"), Symbol("2"), MetaVar(0), MetaVar(1), MetaVar(2),
                     Implies(MetaVar(0), Symbol("1"))}
    IN {<<Assumption(Implies(a, b)), Assumption(Implies(b, c))>> : a, b, c \in patterns}
        \cup {<<ImpReflexivity, ImpReflexivity>>,
              <<ImpReflexivity, Assumption(Implies(MetaVar(0), Symbol("1")))>>,
              <<Assumption(Symbol("0")), ImpReflexivity>>,
              <<ImpReflexivity, Assumption(Symbol("0"))>>,
              <<Assumption(Implies(Symbol("0"), Symbol("1"))),
                Assumption(Implies(Symbol("2"), Symbol("0")))>>}

PropSpecInit ==
    /\ status = "propositional"
    /\ e_init_config = None
    /\ e_curr_config = None
    /\ axioms = {}
    /\ claims = <<>>
    /\ proofs = <<>>
    /\ v_curr_config = None
    /\ v_attr_curr_config = None
    /\ stack = <<>>
    /\ in_simplification = FALSE
    /\ trace = <<>>
    /\ lastCall = [op |-> "none"]
    /\ err = "none"
    /\ nevents = 0
    /\ conv = None
    /\ returned = None

\* The outcome of a method of Propositional called by hand.
PropFinish(out) ==
    /\ returned' = out.v
    /\ err' = out.err
    /\ nevents' = nevents + 1
    /\ UNCHANGED <<status, engineVars, visitorVars, trace, conv>>

PropImpTransitivity(left, right) ==
    /\ status = "propositional"
    /\ nevents < MaxPropOps
    /\ lastCall' = [op |-> "imp_transitivity", left |-> left, right |-> right]
    /\ PropFinish(ImpTransitivity(left, right))

PropSerialize(claims_list, proofs_list) ==
    /\ status = "propositional"
    /\ nevents < MaxPropOps
    /\ lastCall' = [op |-> "serialize", claims |-> claims_list, proofs |-> proofs_list]
    /\ PropFinish(Serialize(claims_list, proofs_list))

PropNext ==
    \/ \E pair \in PropProofPairs : PropImpTransitivity(pair[1], pair[2])
    \/ \E c \in SeqsUpTo({phi0_implies_phi0, Top}, MaxClaims),
          p \in SeqsUpTo({ImpReflexivity, TopIntro}, MaxClaims) : PropSerialize(c, p)

PropSpec == PropSpecInit /\ [][PropNext]_vars


-----------------------------------------------------------------------------
(* Properties of the propositional module *)

\* The proofs of a serialize call match its claims one to one, in order.
Matching(claims_list, proofs_list) ==
    /\ Len(proofs_list) = Len(claims_list)
    /\ \A i \in 1..Len(claims_list) : Conclusion(proofs_list[i]) = claims_list[i]

\* C17: serializing N claims with N matching proofs succeeds, and
\* serializing N claims with fewer than N proofs fails.
C17_SerializerCompleteness ==
    lastCall.op = "serialize" =>
        /\ Matching(lastCall.claims, lastCall.proofs) => err = "none"
        /\ Len(lastCall.proofs) < Len(lastCall.claims) => err = "AssertionError"

\* The two claims of Propositional serialized with the first proof only.
C17_Witness ==
    /\ lastCall.op = "serialize"
    /\ lastCall.claims = PropositionalClaims
    /\ lastCall.proofs = <<ImpReflexivity>>
    /\ err = "AssertionError"

\* C18: for proofs p of A -> B and q of B -> C, imp_transitivity(p, q) is made
\* of valid modus ponens steps only and concludes A -> C.
C18_ImpTransitivity ==
    (/\ lastCall.op = "imp_transitivity"
     /\ IsImplication(Conclusion(lastCall.left))
     /\ IsImplication(Conclusion(lastCall.right))
     /\ Conclusion(lastCall.left).imp_right = Conclusion(lastCall.right).imp_left)
    => /\ err = "none"
       /\ ValidProof(returned)
       /\ Conclusion(returned) = Implies(Conclusion(lastCall.left).imp_left,
                                         Conclusion(lastCall.right).imp_right)

\* A pattern after a sequence of instantiations, the first one first.
RECURSIVE InstantiatedBy(_, _)
InstantiatedBy(p, deltas) ==
    IF deltas = <<>> THEN p ELSE InstantiatedBy(Instantiate(p, deltas[1]), Tail(deltas))

\* Every modus ponens of a proof satisfies the validity condition, also
\* after the instantiations the proof is under: the right premise concludes
\* A -> B and the left premise concludes A.
RECURSIVE ValidSteps(_, _)
ValidSteps(proof, deltas) ==
    IF DOMAIN proof = {"mp_left", "mp_right"}
    THEN /\ ValidSteps(proof.mp_left, deltas)
         /\ ValidSteps(proof.mp_right, deltas)
         /\ IsImplication(InstantiatedBy(Conclusion(proof.mp_right), deltas))
         /\ InstantiatedBy(Conclusion(proof.mp_right), deltas).imp_left
               = InstantiatedBy(Conclusion(proof.mp_left), deltas)
    ELSE IF DOMAIN proof = {"inst_of", "delta"}
    THEN ValidSteps(proof.inst_of, <<proof.delta>> \o deltas)
    ELSE TRUE

\* C25: the theorems of Propositional are proved pairwise: the i-th proof
\* concludes the i-th claim (imp_reflexivity concludes phi0 -> phi0, top_intro
\* concludes top, which is bot -> bot), every modus ponens in the proofs is
\* valid, and the proofs serialize against the claims.
C25_ClaimsProvedPairwise ==
    /\ Len(PropositionalProofs) = Len(PropositionalClaims)
    /\ \A i \in 1..Len(PropositionalClaims) :
          /\ Conclusion(PropositionalProofs[i]) = PropositionalClaims[i]
          /\ ValidSteps(PropositionalProofs[i], <<>>)
    /\ Conclusion(ImpReflexivity) = Implies(MetaVar(0), MetaVar(0))
    /\ Conclusion(TopIntro) = Implies(Mu(SVar(0), SVar(0)), Mu(SVar(0), SVar(0)))
    /\ Conclusion(TopIntro) = Top
    /\ (/\ lastCall.op = "serialize"
        /\ lastCall.claims = PropositionalClaims
        /\ lastCall.proofs = PropositionalProofs) => err = "none"

\* The claims of Propositional serialized with its proofs.
C25_Witness ==
    /\ lastCall.op = "serialize"
    /\ lastCall.claims = PropositionalClaims
    /\ lastCall.proofs = PropositionalProofs
    /\ err = "none"

====
